---- MODULE Spec2Model ----
(***************************************************************************)
(* Model of go-billwerk: the request builder (pkg/request), the query      *)
(* parameter helpers and the client executor Billwerk.Do (optimize).       *)
(*                                                                         *)
(* Go strings are strings; the code that works on their characters (query  *)
(* escaping, header keys, base64) is modelled character by character.      *)
(***************************************************************************)
EXTENDS Integers, Sequences, FiniteSets, TLC

\* ------------------------------------------------------------------------
\* Bounds
\* ------------------------------------------------------------------------

\* number of Do calls made one after the other on one client
MaxCalls == 3

\* number of WithParam and AddParam calls made on one builder
MaxParamCalls == 3

\* number of calls made directly on one builder, terminal methods included
MaxBuilderCalls == 3

\* number of resource operations running concurrently
NumProcs == 2

\* ------------------------------------------------------------------------
\* encoding/json values, as far as Do decodes them
\* ------------------------------------------------------------------------

JStr(s) == [k |-> "str", s |-> s]

JNum(n) == [k |-> "num", n |-> n]

JNull == [k |-> "null"]

JArr == [k |-> "arr"]

JObj(f) == [k |-> "obj", f |-> f]

\* a response body: no bytes at all, bytes that are not JSON, or a JSON value
BodyEmpty == [kind |-> "empty"]

BodySyntax == [kind |-> "syntax"]

BodyValue(val) == [kind |-> "value", val |-> val]

\* the Go value a JSON value of a matching type is stored as
GoValue(j) == IF j.k = "str" THEN j.s ELSE j.n

\* ErrorResponse: json tag |-> (Go field, JSON type)
ErrorResponseTags ==
  [code              |-> [field |-> "Code",             type |-> "num"],
   error             |-> [field |-> "ErrorMessage",     type |-> "str"],
   message           |-> [field |-> "ErrorDescription", type |-> "str"],
   http_reason       |-> [field |-> "HTTPReason",       type |-> "str"],
   http_status       |-> [field |-> "HTTPStatus",       type |-> "num"],
   path              |-> [field |-> "Path",             type |-> "str"],
   timestamp         |-> [field |-> "Timestamp",        type |-> "str"],
   request_id        |-> [field |-> "RequestID",        type |-> "str"],
   transaction_error |-> [field |-> "TransactionError", type |-> "str"]]

\* var errRes ErrorResponse
ErrorResponseZero ==
  [Code |-> 0, ErrorMessage |-> "", ErrorDescription |-> "", HTTPReason |-> "",
   HTTPStatus |-> 0, Path |-> "", Timestamp |-> "", RequestID |-> "",
   TransactionError |-> ""]

\* Plan, reduced to the fields a destination shaped {name, handle} has
PlanTags ==
  [name   |-> [field |-> "Name",   type |-> "str"],
   handle |-> [field |-> "Handle", type |-> "str"]]

\* var res Plan
PlanZero == [Name |-> "", Handle |-> ""]

\* encoding/json matches object keys to struct tags without regard to case
FoldKey(key) ==
  CASE key = "ERROR"  -> "error"
    [] key = "Handle" -> "handle"
    [] OTHER          -> key

\* the keys of object f that name a field of the struct and carry a value
KnownKeys(f, tags) ==
  {key \in DOMAIN f : FoldKey(key) \in DOMAIN tags /\ f[key].k # "null"}

\* json.NewDecoder(body).Decode(&target) for a struct target:
\* err is the cause ("" when decoding succeeded), val the target afterwards
Decode(body, target, tags) ==
  IF body.kind = "empty" THEN [err |-> "EOF", val |-> target]
  ELSE IF body.kind = "syntax"
  THEN [err |-> "invalid character '<' looking for beginning of value",
        val |-> target]
  ELSE IF body.val.k = "null" THEN [err |-> "", val |-> target]
  ELSE IF body.val.k # "obj"
  THEN [err |-> "json: cannot unmarshal " \o body.val.k \o " into Go value",
        val |-> target]
  ELSE
    LET f    == body.val.f
        good == {key \in KnownKeys(f, tags) : f[key].k = tags[FoldKey(key)].type}
        bad  == KnownKeys(f, tags) \ good
    IN  [err |-> IF bad = {} THEN ""
                 ELSE "json: cannot unmarshal into Go struct field",
         val |-> [fld \in DOMAIN target |->
                    IF \E key \in good : tags[FoldKey(key)].field = fld
                    THEN GoValue(f[CHOOSE key \in good :
                                     tags[FoldKey(key)].field = fld])
                    ELSE target[fld]]]

\* ------------------------------------------------------------------------
\* ErrorResponse.Error
\* ------------------------------------------------------------------------

ErrorAlwaysJoined(e) == e.ErrorMessage \o ": " \o e.ErrorDescription

Error(e) ==
  IF e.ErrorDescription # ""
  THEN e.ErrorMessage \o ": " \o e.ErrorDescription
  ELSE e.ErrorMessage

\* ------------------------------------------------------------------------
\* fmt: %d of a non-negative int
\* ------------------------------------------------------------------------

Digits == <<"0", "1", "2", "3", "4", "5", "6", "7", "8", "9">>

RECURSIVE Itoa(_)
Itoa(n) == IF n < 10 THEN Digits[n + 1]
           ELSE Itoa(n \div 10) \o Digits[(n % 10) + 1]

\* ------------------------------------------------------------------------
\* Error values
\* ------------------------------------------------------------------------

NoError == [kind |-> "nil"]

\* the error of b.httpClient.Do, returned as it is
TransportError(cause) == [kind |-> "transport", cause |-> cause]

\* return errRes
APIError(e) == [kind |-> "ErrorResponse", value |-> e]

\* fmt.Errorf without %w
ErrorString(msg) == [kind |-> "errorString", msg |-> msg]

\* fmt.Errorf with %w
WrapError(msg, cause) == [kind |-> "wrapError", msg |-> msg \o cause, unwrap |-> cause]

\* ------------------------------------------------------------------------
\* Characters (printable ASCII, code 32 to 126; a tab stands at code 96, for
\* the backquote that a string of this language cannot hold)
\* ------------------------------------------------------------------------

Ascii ==
  " !\"#$%&'()*+,-./0123456789:;<=>?@ABCDEFGHIJKLMNOPQRSTUVWXYZ[\\]^_\tabcdefghijklmnopqrstuvwxyz{|}~"

Chr(n) == SubSeq(Ascii, n - 31, n - 31)

\* character |-> code
Codes ==
  [c \in {SubSeq(Ascii, i, i) : i \in 1..Len(Ascii)} |->
     31 + CHOOSE i \in 1..Len(Ascii) : SubSeq(Ascii, i, i) = c]

Ord(c) == Codes[c]

CharAt(s, i) == SubSeq(s, i, i)

IsUpper(c) == Ord(c) >= 65 /\ Ord(c) <= 90

IsLower(c) == Ord(c) >= 97 /\ Ord(c) <= 122

IsDigit(c) == Ord(c) >= 48 /\ Ord(c) <= 57

ToUpper(c) == IF IsLower(c) THEN Chr(Ord(c) - 32) ELSE c

ToLower(c) == IF IsUpper(c) THEN Chr(Ord(c) + 32) ELSE c

\* ------------------------------------------------------------------------
\* net/url: QueryEscape and Values
\* ------------------------------------------------------------------------

UpperHex == "0123456789ABCDEF"

\* shouldEscape(c, encodeQueryComponent)
ShouldEscape(c) ==
  ~(IsUpper(c) \/ IsLower(c) \/ IsDigit(c) \/ c \in {"-", "_", ".", "~"})

EscapeChar(c) ==
  IF ~ShouldEscape(c) THEN c
  ELSE IF c = " " THEN "+"
  ELSE "%" \o CharAt(UpperHex, (Ord(c) \div 16) + 1)
           \o CharAt(UpperHex, (Ord(c) % 16) + 1)

RECURSIVE QueryEscape(_)
QueryEscape(s) ==
  IF s = "" THEN "" ELSE EscapeChar(Head(s)) \o QueryEscape(Tail(s))

\* s < t as Go compares strings (sort.Strings)
RECURSIVE StrLess(_, _)
StrLess(s, t) ==
  IF t = "" THEN FALSE
  ELSE IF s = "" THEN TRUE
  ELSE IF Head(s) = Head(t) THEN StrLess(Tail(s), Tail(t))
  ELSE Ord(Head(s)) < Ord(Head(t))

\* the keys of a map in sorted order
RECURSIVE SortedKeys(_)
SortedKeys(keys) ==
  IF keys = {} THEN <<>>
  ELSE LET least == CHOOSE k \in keys : \A o \in keys \ {k} : StrLess(k, o)
       IN  <<least>> \o SortedKeys(keys \ {least})

\* key=value for every value of one key, each preceded by & when buf is not empty
RECURSIVE EncodeKey(_, _, _)
EncodeKey(buf, keyEscaped, vs) ==
  IF vs = <<>> THEN buf
  ELSE EncodeKey((IF buf = "" THEN "" ELSE buf \o "&")
                    \o keyEscaped \o "=" \o QueryEscape(Head(vs)),
                 keyEscaped, Tail(vs))

RECURSIVE EncodeKeys(_, _, _)
EncodeKeys(buf, values, keys) ==
  IF keys = <<>> THEN buf
  ELSE EncodeKeys(EncodeKey(buf, QueryEscape(Head(keys)), values[Head(keys)]),
                  values, Tail(keys))

\* url.Values.Encode: "URL encoded" form sorted by key
Encode(values) == EncodeKeys("", values, SortedKeys(DOMAIN values))

SetAppends(values, key, value) ==
  IF key \in DOMAIN values
  THEN [values EXCEPT ![key] = Append(@, value)]
  ELSE [k \in DOMAIN values \cup {key} |->
          IF k = key THEN <<value>> ELSE values[k]]

\* url.Values.Set: v[key] = []string{value}
Set(values, key, value) ==
  [k \in DOMAIN values \cup {key} |-> IF k = key THEN <<value>> ELSE values[k]]

AddPrepends(values, key, value) ==
  IF key \in DOMAIN values
  THEN [values EXCEPT ![key] = <<value>> \o @]
  ELSE [k \in DOMAIN values \cup {key} |->
          IF k = key THEN <<value>> ELSE values[k]]

\* url.Values.Add: v[key] = append(v[key], value)
Add(values, key, value) ==
  IF key \in DOMAIN values
  THEN [values EXCEPT ![key] = Append(@, value)]
  ELSE [k \in DOMAIN values \cup {key} |->
          IF k = key THEN <<value>> ELSE values[k]]

\* ------------------------------------------------------------------------
\* net/textproto and net/http: Header
\* ------------------------------------------------------------------------

\* upper case for the first letter and any letter after a hyphen, lower case
\* for the rest
RECURSIVE CanonicalFrom(_, _)
CanonicalFrom(s, upper) ==
  IF s = "" THEN ""
  ELSE (IF upper THEN ToUpper(Head(s)) ELSE ToLower(Head(s)))
         \o CanonicalFrom(Tail(s), Head(s) = "-")

\* textproto.CanonicalMIMEHeaderKey, for keys made of letters, digits and hyphens
CanonicalMIMEHeaderKey(key) == CanonicalFrom(key, TRUE)

\* http.Header.Set: one value under the canonical key
HeaderSet(header, key, value) ==
  [k \in DOMAIN header \cup {CanonicalMIMEHeaderKey(key)} |->
     IF k = CanonicalMIMEHeaderKey(key) THEN <<value>> ELSE header[k]]

\* http.Header.Get: the first value under the canonical key, or ""
HeaderGet(header, key) ==
  IF CanonicalMIMEHeaderKey(key) \in DOMAIN header
       /\ header[CanonicalMIMEHeaderKey(key)] # <<>>
  THEN header[CanonicalMIMEHeaderKey(key)][1]
  ELSE ""

\* ------------------------------------------------------------------------
\* encoding/base64: StdEncoding
\* ------------------------------------------------------------------------

encodeStd == "ABCDEFGHIJKLMNOPQRSTUVWXYZabcdefghijklmnopqrstuvwxyz0123456789+/"

StdChar(n) == CharAt(encodeStd, n + 1)

\* base64.StdEncoding.EncodeToString: 3 bytes to 4 characters, "=" padding
RECURSIVE EncodeToString(_)
EncodeToString(src) ==
  IF src = "" THEN ""
  ELSE IF Len(src) = 1
  THEN LET val == Ord(CharAt(src, 1)) * 65536
       IN  StdChar(val \div 262144) \o StdChar((val \div 4096) % 64) \o "=="
  ELSE IF Len(src) = 2
  THEN LET val == Ord(CharAt(src, 1)) * 65536 + Ord(CharAt(src, 2)) * 256
       IN  StdChar(val \div 262144) \o StdChar((val \div 4096) % 64)
             \o StdChar((val \div 64) % 64) \o "="
  ELSE LET val == Ord(CharAt(src, 1)) * 65536 + Ord(CharAt(src, 2)) * 256
                    + Ord(CharAt(src, 3))
       IN  StdChar(val \div 262144) \o StdChar((val \div 4096) % 64)
             \o StdChar((val \div 64) % 64) \o StdChar(val % 64)
             \o EncodeToString(SubSeq(src, 4, Len(src)))

\* ------------------------------------------------------------------------
\* fmt: %v of the values passed as query parameters
\* ------------------------------------------------------------------------

IntV(n) == [t |-> "int", n |-> n]

StrV(str) == [t |-> "string", s |-> str]

BoolV(bool) == [t |-> "bool", b |-> bool]

\* fmt.Sprintf("%v", value)
FormatV(value) ==
  CASE value.t = "int"    -> IF value.n < 0 THEN "-" \o Itoa(-value.n) ELSE Itoa(value.n)
    [] value.t = "string" -> value.s
    [] OTHER              -> IF value.b THEN "true" ELSE "false"

\* ------------------------------------------------------------------------
\* encoding/json and net/http as the builder uses them
\* ------------------------------------------------------------------------

\* a value handed to WithJSONBody: whether json can encode it, and its encoding
Payload(encodable, text) == [encodable |-> encodable, text |-> text]

NoBody == [nil |-> TRUE]

\* an io.Reader over data
Reader(data) == [nil |-> FALSE, data |-> data]

\* json.NewEncoder(buf).Encode(v): the encoding and a newline, or nothing
EncodeJSON(payload) == IF payload.encodable THEN payload.text \o "\n" ELSE ""

IsHex(c) ==
  IsDigit(c) \/ (Ord(ToUpper(c)) >= 65 /\ Ord(ToUpper(c)) <= 70)

\* url.Parse fails on a % that two hex digits do not follow
RECURSIVE HasInvalidEscape(_)
HasInvalidEscape(str) ==
  IF str = "" THEN FALSE
  ELSE IF Head(str) = "%"
  THEN \/ Len(str) < 3
       \/ ~IsHex(CharAt(str, 2))
       \/ ~IsHex(CharAt(str, 3))
       \/ HasInvalidEscape(SubSeq(str, 4, Len(str)))
  ELSE HasInvalidEscape(Tail(str))

NilContext == "nil"

Background == "context.Background"

NoRequest == [nil |-> TRUE]

\* the index of the first sep in str, or 0
Index(str, sep) ==
  LET hits == {i \in 1..Len(str) : SubSeq(str, i, i) = sep}
  IN  IF hits = {} THEN 0 ELSE CHOOSE i \in hits : \A j \in hits : i <= j

Cut(str, sep) ==
  LET i == Index(str, sep)
  IN  IF i = 0 THEN [before |-> str, after |-> "", found |-> FALSE]
      ELSE [before |-> SubSeq(str, 1, i - 1),
            after  |-> SubSeq(str, i + 1, Len(str)),
            found  |-> TRUE]

\* url.Parse, for URLs whose scheme, host and path need no escaping: the
\* fragment is cut off at the first #, the query at the first ?; a lone ?
\* at the end sets ForceQuery. URL holds scheme, host and path as written.
ParseURL(rawURL) ==
  LET hash  == Cut(rawURL, "#")
      query == Cut(hash.before, "?")
      force == query.found /\ query.after = ""
  IN  IF HasInvalidEscape(query.before) \/ HasInvalidEscape(hash.after)
      THEN [err |-> TRUE]
      ELSE [err |-> FALSE, URL |-> query.before, RawQuery |-> query.after,
            ForceQuery |-> force, Fragment |-> hash.after]

\* url.URL.String
URLString(u) ==
  u.URL \o (IF u.ForceQuery \/ u.RawQuery # "" THEN "?" \o u.RawQuery ELSE "")
        \o (IF u.Fragment # "" THEN "#" \o u.Fragment ELSE "")

\* http.NewRequestWithContext: the request, or the error it fails with.
\* The Header of the request is set by build.
NewRequestWithContext(ctx, method, fullURL, body) ==
  IF ctx = NilContext
  THEN [req |-> NoRequest, err |-> ErrorString("net/http: nil Context")]
  ELSE LET u == ParseURL(fullURL)
       IN  IF u.err
           THEN [req |-> NoRequest,
                 err |-> ErrorString("parse \"" \o fullURL
                                        \o "\": invalid URL escape")]
           ELSE [req |-> [nil |-> FALSE, Method |-> method, URL |-> u.URL,
                          RawQuery |-> u.RawQuery, ForceQuery |-> u.ForceQuery,
                          Fragment |-> u.Fragment, Body |-> body],
                 err |-> NoError]

\* ------------------------------------------------------------------------
\* pkg/request: the builder. r is the request struct; every With... returns
\* the builder, here the struct after the call.
\* ------------------------------------------------------------------------

\* billwerk.Version
Version == "0.1.0"

UserAgent == "go-billwerk/" \o Version

MethodGet == "GET"

MethodPost == "POST"

MethodPut == "PUT"

MethodDelete == "DELETE"

\* request.New
New(ctx) ==
  [ctx |-> ctx, method |-> MethodGet, baseURL |-> "", endpoint |-> "",
   header |-> <<>>, params |-> <<>>, body |-> NoBody]

WithBaseURL(r, baseURL) == [r EXCEPT !.baseURL = baseURL]

WithEndpoint(r, endpoint) == [r EXCEPT !.endpoint = endpoint]

WithParam(r, key, value) == [r EXCEPT !.params = Set(@, key, value)]

AddParam(r, key, value) == [r EXCEPT !.params = Add(@, key, value)]

WithHeader(r, key, value) == [r EXCEPT !.header = HeaderSet(@, key, value)]

WithBasicAuthNoColon(r, username, password) ==
  WithHeader(r, "Authorization",
             "Basic " \o EncodeToString(username \o password))

WithBasicAuth(r, username, password) ==
  LET rawCredentials == username \o ":" \o password
      credentials    == EncodeToString(rawCredentials)
      value          == "Basic " \o credentials
  IN  WithHeader(r, "Authorization", value)

WithContentTypeJSON(r) ==
  WithHeader(r, "Content-Type", "application/json; charset=utf-8")

WithBody(r, body) == [r EXCEPT !.body = body]

WithJSONBodyKeepsBodyOnError(r, payload) ==
  IF payload.encodable
  THEN [WithContentTypeJSON(r) EXCEPT !.body = Reader(EncodeJSON(payload))]
  ELSE WithContentTypeJSON(r)

WithJSONBody(r, payload) ==
  [WithContentTypeJSON(r) EXCEPT !.body = Reader(EncodeJSON(payload))]

buildUserAgentIfUnset(r) ==
  LET fullURL == r.baseURL \o r.endpoint
      made    == NewRequestWithContext(r.ctx, r.method, fullURL, r.body)
  IN  IF made.err # NoError
      THEN [req |-> NoRequest, err |-> made.err, r |-> r]
      ELSE [req |-> [made.req EXCEPT !.RawQuery = Encode(r.params)],
            err |-> NoError,
            r   |-> IF HeaderGet(r.header, "User-Agent") = ""
                    THEN WithHeader(r, "User-Agent", UserAgent)
                    ELSE r]

\* request.build: what it returns, and the struct afterwards. req.Header is
\* r.header itself, the same map, and not a field of the record req.
build(r) ==
  LET fullURL == r.baseURL \o r.endpoint
      made    == NewRequestWithContext(r.ctx, r.method, fullURL, r.body)
  IN  IF made.err # NoError
      THEN [req |-> NoRequest, err |-> made.err, r |-> r]
      ELSE [req |-> [made.req EXCEPT !.RawQuery = Encode(r.params)],
            err |-> NoError,
            r   |-> WithHeader(r, "User-Agent", UserAgent)]

GET(r) == build([r EXCEPT !.method = MethodGet])

POST(r) == build([r EXCEPT !.method = MethodPost])

PUT(r) == build([r EXCEPT !.method = MethodPut])

DELETE(r) == build([r EXCEPT !.method = MethodDelete])

\* ------------------------------------------------------------------------
\* optimize: the client
\* ------------------------------------------------------------------------

\* the value var BaseURL is initialised with
BaseURL == "https://api.reepay.com/v1"

\* var BaseURL, the package variable, as it stands now
VARIABLE pkgBaseURL

DefaultClient == [Timeout |-> 10, custom |-> FALSE]

CustomClient == [Timeout |-> 0, custom |-> TRUE]

\* WithHTTPClient(client), applied to the client b
WithHTTPClient(client, b) == [b EXCEPT !.httpClient = client]

RECURSIVE ApplyOptions(_, _)
ApplyOptions(b, opts) ==
  IF opts = <<>> THEN b
  ELSE ApplyOptions(WithHTTPClient(Head(opts), b), Tail(opts))

\* optimize.New: apiKeyB64 is never assigned
NewBillwerk(apiKey, opts) ==
  ApplyOptions([apiKey |-> apiKey, apiKeyB64 |-> "", httpClient |-> DefaultClient],
               opts)

newBillwerkRequestKeyAsPassword(b, ctx) ==
  WithHeader(WithBasicAuth(WithBaseURL(New(ctx), pkgBaseURL), "", b.apiKey),
             "Accept", "application/json; charset=utf-8")

newBillwerkRequest(b, ctx) ==
  WithHeader(WithBasicAuth(WithBaseURL(New(ctx), pkgBaseURL), b.apiKey, ""),
             "Accept", "application/json; charset=utf-8")

\* ------------------------------------------------------------------------
\* State
\* ------------------------------------------------------------------------

VARIABLES
  pc,          \* where the current call of Do stands
  v,           \* Do's argument v: nil, or a pointer and what it pointed to at the call
  target,      \* the value v points to, now
  res,         \* what b.httpClient.Do returned as response (nil before, and on error)
  ret,         \* the error Do returns
  dispatches,  \* invocations of b.httpClient.Do in the current call
  closes,      \* calls of res.Body.Close in the current call
  decodes,     \* json decoders run on res.Body in the current call
  calls,       \* calls of Do completed so far
  b,           \* the client, as New made it
  op,          \* the resource operation under way and how far it has come
  r,           \* the builder of the operation: the request struct
  req,         \* the *http.Request the terminal method returned
  buildErr,    \* the error the terminal method returned
  log,         \* the WithParam and AddParam calls made on the builder, in order
  made,        \* the requests the terminal methods of the builder returned, in order
  hist,        \* the calls made directly on the builder, in order
  result,      \* the value the resource operation returned
  opErr,       \* the error the resource operation returned
  clients,     \* the clients concurrent callers share, as New made them
  procs        \* the resource operations running concurrently, each with its locals

doVars == <<pc, v, target, res, ret, dispatches, closes, decodes, calls>>

opVars == <<b, op, r, req, buildErr, log>>

extVars == <<pkgBaseURL, made, hist, result, opErr, clients, procs>>

vars == <<doVars, opVars, extVars>>

\* ------------------------------------------------------------------------
\* Inputs of Do
\* ------------------------------------------------------------------------

NilValue == [nil |-> TRUE]

Pointer(val) == [nil |-> FALSE, val |-> val]

\* v interface{}: nil (DeletePlanMetadata), &res with var res Plan, or a
\* pointer to a value the caller filled before
Destinations ==
  {NilValue, Pointer(PlanZero), Pointer([Name |-> "old", Handle |-> "old-plan"])}

StatusCodes == {199, 200, 204, 399, 400, 422, 500}

\* {"code":105,"error":"invalid_handle","message":"Handle already exists"}
BodyInvalidHandle ==
  BodyValue(JObj([code |-> JNum(105), error |-> JStr("invalid_handle"),
                  message |-> JStr("Handle already exists")]))

\* {"ERROR":"not_found","message":null}
BodyNotFound == BodyValue(JObj([ERROR |-> JStr("not_found"), message |-> JNull]))

\* {"name":"gold","handle":"gold-plan"}
BodyGoldPlan ==
  BodyValue(JObj([name |-> JStr("gold"), handle |-> JStr("gold-plan")]))

Bodies ==
  {BodyEmpty,
   BodySyntax,
   BodyValue(JNull),
   BodyValue(JArr),
   BodyValue(JObj(<<>>)),
   BodyValue(JObj([foo |-> JNum(1)])),
   BodyInvalidHandle,
   BodyNotFound,
   BodyValue(JObj([code |-> JStr("abc"), error |-> JStr("bad")])),
   BodyGoldPlan,
   BodyValue(JObj([name |-> JNum(7), Handle |-> JStr("gold-plan")]))}

\* what the transport reports when it cannot dispatch: DNS, TLS, timeout
TransportErrors ==
  {"dial tcp: lookup api.reepay.com: no such host",
   "x509: certificate signed by unknown authority",
   "context deadline exceeded"}

NoResponse == [nil |-> TRUE]

Response(code, body) == [nil |-> FALSE, StatusCode |-> code, Body |-> body]

\* http.StatusOK, http.StatusBadRequest
StatusOK == 200

StatusBadRequest == 400

IsErrorStatus(code) == code < StatusOK \/ code >= StatusBadRequest

\* ------------------------------------------------------------------------
\* Billwerk.Do
\* ------------------------------------------------------------------------

NoBuilder == [nil |-> TRUE]

NoOp == [name |-> "", phase |-> "Ready"]

\* no call of Do under way
InitCall ==
  /\ pc = "Idle"
  /\ v = NilValue
  /\ target = PlanZero
  /\ res = NoResponse
  /\ ret = NoError
  /\ dispatches = 0
  /\ closes = 0
  /\ decodes = 0
  /\ calls = 0

\* no resource operation under way
InitOp ==
  /\ op = NoOp
  /\ r = NoBuilder
  /\ req = NoRequest
  /\ buildErr = NoError
  /\ log = <<>>

\* the package variable as initialised; nothing else has run
InitExt ==
  /\ pkgBaseURL = BaseURL
  /\ made = <<>>
  /\ hist = <<>>
  /\ result = NilValue
  /\ opErr = NoError
  /\ clients = <<>>
  /\ procs = <<>>

Init ==
  /\ InitCall
  /\ InitOp
  /\ InitExt
  /\ b = NewBillwerk("priv_abc123", <<>>)

\* Do is entered and hands req to b.httpClient.Do
DoCall(dst) ==
  /\ pc = "Idle"
  /\ pc' = "Dispatched"
  /\ v' = dst
  /\ target' = IF dst.nil THEN PlanZero ELSE dst.val
  /\ dispatches' = dispatches + 1
  /\ UNCHANGED <<res, ret, closes, decodes, calls>>
  /\ UNCHANGED <<opVars, extVars>>

TransportFailCauseDropped(cause) ==
  /\ pc = "Dispatched"
  /\ ret' = ErrorString("request failed")
  /\ pc' = "Done"
  /\ UNCHANGED <<v, target, res, dispatches, closes, decodes, calls>>
  /\ UNCHANGED <<opVars, extVars>>

TransportFailRetried(cause) ==
  /\ pc = "Dispatched"
  /\ IF dispatches < 2
     THEN /\ dispatches' = dispatches + 1
          /\ UNCHANGED <<pc, ret>>
     ELSE /\ ret' = TransportError(cause)
          /\ pc' = "Done"
          /\ UNCHANGED dispatches
  /\ UNCHANGED <<v, target, res, closes, decodes, calls>>
  /\ UNCHANGED <<opVars, extVars>>

\* b.httpClient.Do returns err != nil: return err
TransportFail(cause) ==
  /\ pc = "Dispatched"
  /\ ret' = TransportError(cause)
  /\ pc' = "Done"
  /\ UNCHANGED <<v, target, res, dispatches, closes, decodes, calls>>
  /\ UNCHANGED <<opVars, extVars>>

\* b.httpClient.Do returns a response; the deferred Close is registered
TransportRespond(code, body) ==
  /\ pc = "Dispatched"
  /\ res' = Response(code, body)
  /\ pc' = "Responded"
  /\ UNCHANGED <<v, target, ret, dispatches, closes, decodes, calls>>
  /\ UNCHANGED <<opVars, extVars>>

\* res.StatusCode < 200 || res.StatusCode >= 400
ErrorStatus ==
  /\ pc = "Responded"
  /\ IsErrorStatus(res.StatusCode)
  /\ decodes' = decodes + 1
  /\ LET d == Decode(res.Body, ErrorResponseZero, ErrorResponseTags)
     IN  ret' = IF d.err = ""
                THEN APIError(d.val)
                ELSE ErrorString("unknown error, status code: "
                                    \o Itoa(res.StatusCode))
  /\ pc' = "Deferred"
  /\ UNCHANGED <<v, target, res, dispatches, closes, calls>>
  /\ UNCHANGED <<opVars, extVars>>

SuccessStatusErrorSwallowed ==
  /\ pc = "Responded"
  /\ ~IsErrorStatus(res.StatusCode)
  /\ IF ~v.nil
     THEN /\ decodes' = decodes + 1
          /\ target' = Decode(res.Body, target, PlanTags).val
          /\ ret' = NoError
     ELSE UNCHANGED <<decodes, target, ret>>
  /\ pc' = "Deferred"
  /\ UNCHANGED <<v, res, dispatches, closes, calls>>
  /\ UNCHANGED <<opVars, extVars>>

SuccessStatusAlwaysDecoded ==
  /\ pc = "Responded"
  /\ ~IsErrorStatus(res.StatusCode)
  /\ decodes' = decodes + 1
  /\ LET d == Decode(res.Body, target, PlanTags)
     IN  /\ target' = d.val
         /\ ret' = IF d.err = "" THEN NoError
                   ELSE WrapError("failed to decode response body: ", d.err)
  /\ pc' = "Deferred"
  /\ UNCHANGED <<v, res, dispatches, closes, calls>>
  /\ UNCHANGED <<opVars, extVars>>

\* status in [200,400): if v != nil, decode the body into v
SuccessStatus ==
  /\ pc = "Responded"
  /\ ~IsErrorStatus(res.StatusCode)
  /\ IF ~v.nil
     THEN /\ decodes' = decodes + 1
          /\ LET d == Decode(res.Body, target, PlanTags)
             IN  /\ target' = d.val
                 /\ ret' = IF d.err = "" THEN NoError
                           ELSE WrapError("failed to decode response body: ", d.err)
     ELSE UNCHANGED <<decodes, target, ret>>
  /\ pc' = "Deferred"
  /\ UNCHANGED <<v, res, dispatches, closes, calls>>
  /\ UNCHANGED <<opVars, extVars>>

CloseBodyOnSuccessOnly ==
  /\ pc = "Deferred"
  /\ closes' = IF ret = NoError THEN closes + 1 ELSE closes
  /\ pc' = "Done"
  /\ UNCHANGED <<v, target, res, ret, dispatches, decodes, calls>>
  /\ UNCHANGED <<opVars, extVars>>

\* the deferred func runs body.Close() as Do returns
CloseBody ==
  /\ pc = "Deferred"
  /\ closes' = closes + 1
  /\ pc' = "Done"
  /\ UNCHANGED <<v, target, res, ret, dispatches, decodes, calls>>
  /\ UNCHANGED <<opVars, extVars>>

\* Do has returned; the caller makes its next call
NextCall ==
  /\ pc = "Done"
  /\ calls < MaxCalls
  /\ calls' = calls + 1
  /\ pc' = "Idle"
  /\ v' = NilValue
  /\ target' = PlanZero
  /\ res' = NoResponse
  /\ ret' = NoError
  /\ dispatches' = 0
  /\ closes' = 0
  /\ decodes' = 0
  /\ UNCHANGED <<opVars, extVars>>

DoNext ==
  \/ \E dst \in Destinations : DoCall(dst)
  \/ \E cause \in TransportErrors : TransportFail(cause)
  \/ \E code \in StatusCodes, body \in Bodies : TransportRespond(code, body)
  \/ ErrorStatus
  \/ SuccessStatus
  \/ CloseBody
  \/ NextCall

SpecDo == Init /\ [][DoNext]_vars

\* ------------------------------------------------------------------------
\* Properties of Do
\* ------------------------------------------------------------------------

Returned == pc = "Done"

GotErrorStatus == ~res.nil /\ IsErrorStatus(res.StatusCode)

GotSuccessStatus == ~res.nil /\ ~IsErrorStatus(res.StatusCode)

UnknownAPIError(code) == ErrorString("unknown error, status code: " \o Itoa(code))

\* the body is JSON and carries at least one field of ErrorResponse
CarriesErrorResponseField(body) ==
  /\ body.kind = "value"
  /\ body.val.k = "obj"
  /\ \E key \in DOMAIN body.val.f : FoldKey(key) \in DOMAIN ErrorResponseTags

\* C1: a response with a status outside [200,400) whose body is not JSON, or
\* is JSON without any ErrorResponse field, makes Do fail with the unknown
\* error that carries the status code, never with an ErrorResponse.
C1_UnrecognizedBodyIsUnknownError ==
  (Returned /\ GotErrorStatus /\ ~CarriesErrorResponseField(res.Body))
    => ret = UnknownAPIError(res.StatusCode)

\* C2: a response with a status outside [200,400) whose body decodes as an
\* ErrorResponse makes Do fail with that one ErrorResponse; its display string
\* is the message alone when the description is empty, and the message, ": "
\* and the description otherwise.
C2_DecodedErrorResponseReturned ==
  (Returned /\ GotErrorStatus
     /\ Decode(res.Body, ErrorResponseZero, ErrorResponseTags).err = "")
    => /\ ret.kind = "ErrorResponse"
       /\ ret.value = Decode(res.Body, ErrorResponseZero, ErrorResponseTags).val
       /\ decodes = 1
       /\ Error(ret.value) =
            IF ret.value.ErrorDescription = ""
            THEN ret.value.ErrorMessage
            ELSE ret.value.ErrorMessage \o ": " \o ret.value.ErrorDescription
       /\ (res.Body = BodyInvalidHandle)
            => Error(ret.value) = "invalid_handle: Handle already exists"
       /\ (res.Body = BodyNotFound) => Error(ret.value) = "not_found"

C2_Witness ==
  /\ Returned
  /\ ~res.nil
  /\ res.StatusCode = 422
  /\ ret.kind = "ErrorResponse"
  /\ ret.value.Code = 105
  /\ Error(ret.value) = "invalid_handle: Handle already exists"

\* C3: with a status in [200,400) and a non-nil destination Do decodes the
\* body into the destination: it returns no error when decoding succeeds and
\* an error wrapping the parse cause when it fails, never success.
C3_SuccessStatusDecodes ==
  (Returned /\ GotSuccessStatus /\ ~v.nil)
    => LET d == Decode(res.Body, v.val, PlanTags)
       IN  /\ decodes = 1
           /\ target = d.val
           /\ (d.err = "") => ret = NoError
           /\ (d.err # "") => /\ ret.kind = "wrapError"
                              /\ ret.unwrap = d.err
                              /\ ret.msg = "failed to decode response body: " \o d.err
           /\ (res.Body = BodyGoldPlan)
                => /\ ret = NoError
                   /\ target = [Name |-> "gold", Handle |-> "gold-plan"]
           /\ (res.Body \in {BodyEmpty, BodySyntax, BodyValue(JArr)})
                => ret.kind = "wrapError"

C3_Witness ==
  /\ Returned
  /\ GotSuccessStatus
  /\ ~v.nil
  /\ res.Body = BodyEmpty
  /\ ret.kind = "wrapError"
  /\ ret.unwrap = "EOF"

\* C4: with a nil destination and a status in [200,400) Do returns no error
\* and runs no decoder on the body, whatever the body is.
C4_NilDestinationSkipsBody ==
  (Returned /\ GotSuccessStatus /\ v.nil)
    => /\ ret = NoError
       /\ decodes = 0

C4_Witness ==
  /\ Returned
  /\ GotSuccessStatus
  /\ v.nil
  /\ res.Body = BodySyntax
  /\ ret = NoError

\* C5: when the transport fails, Do returns an error that carries the
\* transport's cause, no decoder runs and the destination is unchanged.
C5_TransportFailureReturnedAsIs ==
  (Returned /\ res.nil)
    => /\ ret.kind = "transport"
       /\ ret.cause \in TransportErrors
       /\ decodes = 0
       /\ ~v.nil => target = v.val

C5_Witness ==
  /\ Returned
  /\ res.nil
  /\ ~v.nil
  /\ target.Name = "old"
  /\ ret = TransportError("context deadline exceeded")

\* C6: whenever the transport returned a response, its body has been closed
\* exactly once when Do has returned, on each of the four exit paths, and is
\* never closed more than once.
C6_BodyClosedExactlyOnce ==
  /\ closes <= 1
  /\ (Returned /\ ~res.nil) => closes = 1
  /\ (Returned /\ res.nil) => closes = 0

C6_Witness ==
  /\ Returned
  /\ GotErrorStatus
  /\ ret.kind = "errorString"
  /\ closes = 1

\* the five terminal outcomes of a call
Success == GotSuccessStatus /\ ret = NoError

NetworkFailure == res.nil /\ ret.kind = "transport"

SuccessStatusDecodeFailure == GotSuccessStatus /\ ret.kind = "wrapError"

ErrorStatusDecoded == GotErrorStatus /\ ret.kind = "ErrorResponse"

ErrorStatusUndecodable == GotErrorStatus /\ ret.kind = "errorString"

Outcomes ==
  {o \in {"Success", "NetworkFailure", "SuccessStatusDecodeFailure",
          "ErrorStatusDecoded", "ErrorStatusUndecodable"} :
     CASE o = "Success"                    -> Success
       [] o = "NetworkFailure"             -> NetworkFailure
       [] o = "SuccessStatusDecodeFailure" -> SuccessStatusDecodeFailure
       [] o = "ErrorStatusDecoded"         -> ErrorStatusDecoded
       [] OTHER                            -> ErrorStatusUndecodable}

\* the state of the call as the spec's state machine names it
CallState ==
  IF pc = "Idle" THEN "Idle"
  ELSE IF pc = "Done" THEN "Terminal"
  ELSE "Dispatched"

\* C7: a call goes from Idle to Dispatched and from there to exactly one of
\* the five terminal outcomes; the transport is invoked exactly once per
\* call, so no outcome leads to a second dispatch.
C7_OneDispatchOneOutcome ==
  /\ [](Returned => (Cardinality(Outcomes) = 1 /\ dispatches = 1))
  /\ [](dispatches = IF pc = "Idle" THEN 0 ELSE 1)
  /\ [][CallState' # CallState =>
          \/ CallState = "Idle" /\ CallState' = "Dispatched"
          \/ CallState = "Dispatched" /\ CallState' = "Terminal"
          \/ CallState = "Terminal" /\ CallState' = "Idle" /\ calls' = calls + 1]_vars

C7_Witness ==
  /\ Returned
  /\ calls = 1
  /\ dispatches = 1
  /\ Outcomes = {"SuccessStatusDecodeFailure"}

\* ------------------------------------------------------------------------
\* Inputs of the resource operations
\* ------------------------------------------------------------------------

APIKeys == {"", "a", "priv_abc123"}

OptionLists == {<<>>, <<CustomClient>>}

Contexts == {Background, NilContext}

Handles == {"gold-plan", "50%off"}

Versions == {2}

\* *Plan, *PlanSupersede
Plans == {Payload(TRUE, "{\"name\":\"gold\",\"handle\":\"gold-plan\"}"),
          Payload(TRUE, "null")}

\* metadata interface{}: a map, or a value json cannot encode
Metadata == {Payload(TRUE, "{\"tier\":1}"), Payload(FALSE, "")}

\* QueryParam: State, and a key that needs escaping
QueryParams == {"state", "a&b"}

QueryValues == {IntV(100), StrV("x y=z")}

ValueLists == {<<x>> : x \in QueryValues} \cup {<<x, y>> : x, y \in QueryValues}

\* ------------------------------------------------------------------------
\* The resource operations of plan.go, up to the terminal method
\* ------------------------------------------------------------------------

InitOps ==
  /\ InitCall
  /\ InitOp
  /\ InitExt
  /\ b \in {NewBillwerk(apiKey, opts) : apiKey \in APIKeys, opts \in OptionLists}

\* the operation obtains its builder and configures it
Begin(name, builder) ==
  /\ op.phase = "Ready"
  /\ op' = [name |-> name, phase |-> "Configured"]
  /\ r' = builder
  /\ UNCHANGED <<b, req, buildErr, log>>
  /\ UNCHANGED <<doVars, extVars>>

GetListOfPlans(ctx) ==
  Begin("GetListOfPlans", WithEndpoint(newBillwerkRequest(b, ctx), "/list/plan"))

GetPlan(ctx, handle) ==
  Begin("GetPlan",
        WithEndpoint(newBillwerkRequest(b, ctx), "/plan/" \o handle \o "/current"))

GetListOfPlanVersions(ctx, handle) ==
  Begin("GetListOfPlanVersions",
        WithEndpoint(newBillwerkRequest(b, ctx), "/plan/" \o handle))

CreatePlan(ctx, plan) ==
  Begin("CreatePlan",
        WithJSONBody(WithEndpoint(newBillwerkRequest(b, ctx), "/plan"), plan))

SupersedePlan(ctx, handle, plan) ==
  Begin("SupersedePlan",
        WithJSONBody(WithEndpoint(newBillwerkRequest(b, ctx), "/plan/" \o handle),
                     plan))

UpdatePlan(ctx, handle, plan) ==
  Begin("UpdatePlan",
        WithJSONBody(WithEndpoint(newBillwerkRequest(b, ctx), "/plan/" \o handle),
                     plan))

DeletePlan(ctx, handle) ==
  Begin("DeletePlan", WithEndpoint(newBillwerkRequest(b, ctx), "/plan/" \o handle))

UndeletePlan(ctx, handle) ==
  Begin("UndeletePlan",
        WithEndpoint(newBillwerkRequest(b, ctx), "/plan/" \o handle \o "/undelete"))

GetPlanEntitlements(ctx, handle, version) ==
  Begin("GetPlanEntitlements",
        WithEndpoint(newBillwerkRequest(b, ctx),
                     "/plan/" \o handle \o "/" \o Itoa(version) \o "/entitlement"))

GetPlanMetadata(ctx, handle) ==
  Begin("GetPlanMetadata",
        WithEndpoint(newBillwerkRequest(b, ctx), "/plan/" \o handle \o "/metadata"))

CreateOrUpdatePlanMetadata(ctx, handle, metadata) ==
  Begin("CreateOrUpdatePlanMetadata",
        WithJSONBody(WithEndpoint(newBillwerkRequest(b, ctx),
                                  "/plan/" \o handle \o "/metadata"),
                     metadata))

DeletePlanMetadata(ctx, handle) ==
  Begin("DeletePlanMetadata",
        WithEndpoint(newBillwerkRequest(b, ctx), "/plan/" \o handle \o "/metadata"))

\* the operations that take params ...QueryParamFunc
ParamOps == {"GetListOfPlans", "GetPlan", "GetListOfPlanVersions"}

\* AddParam for every value, in order
RECURSIVE AddParams(_, _, _)
AddParams(builder, key, values) ==
  IF values = <<>> THEN builder
  ELSE AddParams(AddParam(builder, key, FormatV(Head(values))), key, Tail(values))

RECURSIVE AddEntries(_, _)
AddEntries(key, values) ==
  IF values = <<>> THEN <<>>
  ELSE <<[call |-> "AddParam", key |-> key, value |-> FormatV(Head(values))]>>
         \o AddEntries(key, Tail(values))

\* param(requestBuilder) for a param made by WithQueryParam
WithQueryParam(param, value) ==
  /\ op.phase = "Configured"
  /\ op.name \in ParamOps
  /\ Len(log) < MaxParamCalls
  /\ r' = WithParam(r, param, FormatV(value))
  /\ log' = Append(log, [call |-> "WithParam", key |-> param,
                         value |-> FormatV(value)])
  /\ UNCHANGED <<b, op, req, buildErr>>
  /\ UNCHANGED <<doVars, extVars>>

\* param(requestBuilder) for a param made by WithQueryParams
WithQueryParams(param, values) ==
  /\ op.phase = "Configured"
  /\ op.name \in ParamOps
  /\ Len(log) + Len(values) <= MaxParamCalls
  /\ r' = AddParams(r, param, values)
  /\ log' = log \o AddEntries(param, values)
  /\ UNCHANGED <<b, op, req, buildErr>>
  /\ UNCHANGED <<doVars, extVars>>

\* the terminal method returns (req, err)
Terminal(names, built) ==
  /\ op.phase = "Configured"
  /\ op.name \in names
  /\ op' = [op EXCEPT !.phase = "Built"]
  /\ r' = built.r
  /\ req' = built.req
  /\ buildErr' = built.err
  /\ UNCHANGED <<b, log>>
  /\ UNCHANGED <<doVars, extVars>>

CallGET ==
  Terminal({"GetListOfPlans", "GetPlan", "GetListOfPlanVersions",
            "GetPlanEntitlements", "GetPlanMetadata"}, GET(r))

CallPOST == Terminal({"CreatePlan", "SupersedePlan", "UndeletePlan"}, POST(r))

CallPUT == Terminal({"UpdatePlan", "CreateOrUpdatePlanMetadata"}, PUT(r))

CallDELETE == Terminal({"DeletePlan", "DeletePlanMetadata"}, DELETE(r))

OpsNext ==
  \/ \E ctx \in Contexts : GetListOfPlans(ctx)
  \/ \E ctx \in Contexts, handle \in Handles : GetPlan(ctx, handle)
  \/ \E ctx \in Contexts, handle \in Handles : GetListOfPlanVersions(ctx, handle)
  \/ \E ctx \in Contexts, plan \in Plans : CreatePlan(ctx, plan)
  \/ \E ctx \in Contexts, handle \in Handles, plan \in Plans :
       SupersedePlan(ctx, handle, plan)
  \/ \E ctx \in Contexts, handle \in Handles, plan \in Plans :
       UpdatePlan(ctx, handle, plan)
  \/ \E ctx \in Contexts, handle \in Handles : DeletePlan(ctx, handle)
  \/ \E ctx \in Contexts, handle \in Handles : UndeletePlan(ctx, handle)
  \/ \E ctx \in Contexts, handle \in Handles, version \in Versions :
       GetPlanEntitlements(ctx, handle, version)
  \/ \E ctx \in Contexts, handle \in Handles : GetPlanMetadata(ctx, handle)
  \/ \E ctx \in Contexts, handle \in Handles, metadata \in Metadata :
       CreateOrUpdatePlanMetadata(ctx, handle, metadata)
  \/ \E ctx \in Contexts, handle \in Handles : DeletePlanMetadata(ctx, handle)
  \/ \E param \in QueryParams, value \in QueryValues : WithQueryParam(param, value)
  \/ \E param \in QueryParams, values \in ValueLists : WithQueryParams(param, values)
  \/ CallGET
  \/ CallPOST
  \/ CallPUT
  \/ CallDELETE

SpecOps == InitOps /\ [][OpsNext]_vars

\* ------------------------------------------------------------------------
\* Reading a query string back: the pairs of k=v&k=v, unescaped
\* ------------------------------------------------------------------------

HexVal(c) == (CHOOSE i \in 1..16 : CharAt(UpperHex, i) = c) - 1

RECURSIVE QueryUnescape(_)
QueryUnescape(str) ==
  IF str = "" THEN ""
  ELSE IF Head(str) = "+" THEN " " \o QueryUnescape(Tail(str))
  ELSE IF Head(str) = "%"
  THEN Chr(16 * HexVal(CharAt(str, 2)) + HexVal(CharAt(str, 3)))
         \o QueryUnescape(SubSeq(str, 4, Len(str)))
  ELSE Head(str) \o QueryUnescape(Tail(str))

\* the index of the first sep in str, or 0
RECURSIVE IndexFrom(_, _, _)
IndexFrom(str, sep, i) ==
  IF i > Len(str) THEN 0
  ELSE IF CharAt(str, i) = sep THEN i
  ELSE IndexFrom(str, sep, i + 1)

RECURSIVE SplitOn(_, _)
SplitOn(str, sep) ==
  LET i == IndexFrom(str, sep, 1)
  IN  IF i = 0 THEN <<str>>
      ELSE <<SubSeq(str, 1, i - 1)>> \o SplitOn(SubSeq(str, i + 1, Len(str)), sep)

PairOf(part) ==
  LET i == IndexFrom(part, "=", 1)
  IN  IF i = 0 THEN [key |-> QueryUnescape(part), value |-> ""]
      ELSE [key   |-> QueryUnescape(SubSeq(part, 1, i - 1)),
            value |-> QueryUnescape(SubSeq(part, i + 1, Len(part)))]

QueryPairs(query) ==
  IF query = "" THEN <<>>
  ELSE LET parts == SplitOn(query, "&")
       IN  [i \in 1..Len(parts) |-> PairOf(parts[i])]

\* the values that query carries for key, in their order
ValuesOf(query, key) ==
  LET HasKey(pair) == pair.key = key
      pairs == SelectSeq(QueryPairs(query), HasKey)
  IN  [i \in 1..Len(pairs) |-> pairs[i].value]

\* ------------------------------------------------------------------------
\* Properties of the query parameters
\* ------------------------------------------------------------------------

Materialized == op.phase = "Built" /\ ~req.nil

\* the positions of the log that write key
WritesOf(key) == {i \in 1..Len(log) : log[i].key = key}

LastWriteOf(key) == CHOOSE i \in WritesOf(key) : \A j \in WritesOf(key) : j <= i

\* the position of the last WithParam for key, or 0
LastSetOf(key) ==
  IF \E i \in WritesOf(key) : log[i].call = "WithParam"
  THEN CHOOSE i \in WritesOf(key) :
         /\ log[i].call = "WithParam"
         /\ \A j \in WritesOf(key) : log[j].call = "WithParam" => j <= i
  ELSE 0

\* the values written for key from position from on, in call order
WrittenIn(calls_, key, from) ==
  LET ForKey(entry) == entry.key = key
      entries == SelectSeq(SubSeq(calls_, from, Len(calls_)), ForKey)
  IN  [i \in 1..Len(entries) |-> entries[i].value]

WrittenFrom(key, from) == WrittenIn(log, key, from)

ValuesAt(params, key) == IF key \in DOMAIN params THEN params[key] ELSE <<>>

\* the step appends one WithParam call to the log
IsWithParamStep ==
  /\ Len(log') = Len(log) + 1
  /\ log'[Len(log')].call = "WithParam"

\* the step appends AddParam calls for one key to the log
IsAddParamStep ==
  /\ Len(log') > Len(log)
  /\ log'[Len(log')].call = "AddParam"

\* C8: WithParam(key, value) replaces every value stored for key by the one
\* value and leaves the other keys alone; the materialized query string
\* carries, for a key last written by WithParam, exactly one key=value, with
\* the last value.
C8_WithParamOverwrites ==
  /\ [](Materialized =>
          \A key \in QueryParams :
            (WritesOf(key) # {} /\ log[LastWriteOf(key)].call = "WithParam")
              => ValuesOf(req.RawQuery, key) = <<log[LastWriteOf(key)].value>>)
  /\ [][IsWithParamStep =>
          LET written == log'[Len(log')]
          IN  /\ r'.params[written.key] = <<written.value>>
              /\ DOMAIN r'.params = DOMAIN r.params \cup {written.key}
              /\ \A key \in DOMAIN r.params \ {written.key} :
                   r'.params[key] = r.params[key]]_vars

C8_Witness ==
  /\ Materialized
  /\ Len(log) = 3
  /\ log[1].key = "a&b" /\ log[2].key = "a&b" /\ log[3].key = "a&b"
  /\ log[1].call = "AddParam"
  /\ log[2].call = "WithParam"
  /\ log[3].call = "WithParam"
  /\ log[2].value = "100"
  /\ log[3].value = "x y=z"
  /\ req.RawQuery = "a%26b=x+y%3Dz"

\* C9: AddParam(key, value) appends value after the values stored for key and
\* disturbs none; the materialized query string carries for key the value of
\* the last WithParam, if any, and after it one key=value for every AddParam
\* since, in call order, whatever calls for other keys came in between.
C9_AddParamAppends ==
  /\ [](Materialized =>
          \A key \in QueryParams :
            /\ ValuesOf(req.RawQuery, key) =
                 WrittenFrom(key, IF LastSetOf(key) = 0 THEN 1 ELSE LastSetOf(key))
            /\ LastSetOf(key) = 0 =>
                 Len(ValuesOf(req.RawQuery, key)) = Cardinality(WritesOf(key)))
  /\ [][IsAddParamStep =>
          LET added == log'[Len(log')].key
          IN  /\ r'.params[added] =
                   ValuesAt(r.params, added) \o WrittenIn(log', added, Len(log) + 1)
              /\ DOMAIN r'.params = DOMAIN r.params \cup {added}
              /\ \A key \in DOMAIN r.params \ {added} :
                   r'.params[key] = r.params[key]]_vars

C9_Witness ==
  /\ Materialized
  /\ Len(log) = 3
  /\ \A i \in 1..3 : log[i].call = "AddParam"
  /\ log[1].key = "state" /\ log[2].key = "a&b" /\ log[3].key = "state"
  /\ log[1].value = "x y=z"
  /\ log[3].value = "100"
  /\ req.RawQuery = "a%26b=100&state=x+y%3Dz&state=100"

\* ------------------------------------------------------------------------
\* Reading base64 back
\* ------------------------------------------------------------------------

\* character of the alphabet |-> its six bits
StdIndexes ==
  [c \in {CharAt(encodeStd, i) : i \in 1..64} |->
     (CHOOSE i \in 1..64 : CharAt(encodeStd, i) = c) - 1]

StdIndex(c) == StdIndexes[c]

\* base64.StdEncoding.DecodeString of well-formed input
RECURSIVE DecodeString(_)
DecodeString(str) ==
  IF Len(str) < 4 THEN ""
  ELSE LET c3  == CharAt(str, 3)
           c4  == CharAt(str, 4)
           val == StdIndex(CharAt(str, 1)) * 262144
                    + StdIndex(CharAt(str, 2)) * 4096
                    + (IF c3 = "=" THEN 0 ELSE StdIndex(c3) * 64)
                    + (IF c4 = "=" THEN 0 ELSE StdIndex(c4))
       IN  Chr(val \div 65536)
             \o (IF c3 = "=" THEN "" ELSE Chr((val \div 256) % 256))
             \o (IF c4 = "=" THEN "" ELSE Chr(val % 256))
             \o DecodeString(SubSeq(str, 5, Len(str)))

\* ------------------------------------------------------------------------
\* Properties of the authenticated builder
\* ------------------------------------------------------------------------

HasBuilder == op.phase \in {"Configured", "Built"}

\* base64(apiKey + ":") of the API keys of the model, as RFC 4648 gives it
CredentialsOf(apiKey) ==
  CASE apiKey = ""            -> "Og=="
    [] apiKey = "a"           -> "YTo="
    [] apiKey = "priv_abc123" -> "cHJpdl9hYmMxMjM6"

\* C10: a builder from newBillwerkRequest carries, for every API key and
\* whatever endpoint is set, Authorization "Basic " + base64(apiKey + ":"),
\* Accept "application/json; charset=utf-8" and the fixed base URL, and so
\* does every request a resource operation materializes from it.
C10_AuthenticatedBuilder ==
  HasBuilder =>
    /\ "Authorization" \in DOMAIN r.header
    /\ "Accept" \in DOMAIN r.header
    /\ r.header["Authorization"] = <<"Basic " \o CredentialsOf(b.apiKey)>>
    /\ LET value == r.header["Authorization"][1]
       IN  /\ SubSeq(value, 1, 6) = "Basic "
           /\ DecodeString(SubSeq(value, 7, Len(value))) = b.apiKey \o ":"
    /\ r.header["Accept"] = <<"application/json; charset=utf-8">>
    /\ r.baseURL = BaseURL
    /\ Materialized =>
         SubSeq(req.URL, 1, Len(BaseURL)) = BaseURL

C10_Witness ==
  /\ Materialized
  /\ op.name = "CreateOrUpdatePlanMetadata"
  /\ b.apiKey = "a"
  /\ req.Method = MethodPut
  /\ HeaderGet(r.header, "Authorization") = "Basic YTo="
  /\ HeaderGet(r.header, "User-Agent") = UserAgent

\* ------------------------------------------------------------------------
\* The builder used directly: any calls in any order, before and after the
\* terminal methods
\* ------------------------------------------------------------------------

BaseURLs == {"https://api.example.com/v1", "https://api.example.com/v1/"}

Endpoints == {"/plan/gold-plan", "/plan?size=10", "/50%off"}

HeaderKeys == {"user-agent", "USER-AGENT", "X-Trace"}

HeaderValues == {"curl/8.0"}

Payloads == {Payload(TRUE, "{\"name\":\"gold\"}"), Payload(FALSE, "")}

RawBodies == {Reader("raw")}

InitBuilder ==
  /\ InitCall
  /\ InitExt
  /\ b = NewBillwerk("priv_abc123", <<>>)
  /\ op = NoOp
  /\ r = New(Background)
  /\ req = NoRequest
  /\ buildErr = NoError
  /\ log = <<>>

\* a call on the builder that returns the builder
Configure(call, builder) ==
  /\ Len(hist) < MaxBuilderCalls
  /\ r' = builder
  /\ hist' = Append(hist, call)
  /\ UNCHANGED <<b, op, req, buildErr, log>>
  /\ UNCHANGED <<pkgBaseURL, made, result, opErr, clients, procs>>
  /\ UNCHANGED doVars

BuilderWithBaseURL(baseURL) ==
  Configure([name |-> "WithBaseURL", arg |-> baseURL], WithBaseURL(r, baseURL))

BuilderWithEndpoint(endpoint) ==
  Configure([name |-> "WithEndpoint", arg |-> endpoint], WithEndpoint(r, endpoint))

BuilderWithParam(key, value) ==
  Configure([name |-> "WithParam", arg |-> key], WithParam(r, key, value))

BuilderAddParam(key, value) ==
  Configure([name |-> "AddParam", arg |-> key], AddParam(r, key, value))

BuilderWithHeader(key, value) ==
  Configure([name |-> "WithHeader", arg |-> key], WithHeader(r, key, value))

BuilderWithBasicAuth(username, password) ==
  Configure([name |-> "WithBasicAuth", arg |-> username],
            WithBasicAuth(r, username, password))

BuilderWithContentTypeJSON ==
  Configure([name |-> "WithContentTypeJSON", arg |-> ""], WithContentTypeJSON(r))

BuilderWithBody(body) ==
  Configure([name |-> "WithBody", arg |-> body.data], WithBody(r, body))

BuilderWithJSONBody(payload) ==
  Configure([name |-> "WithJSONBody", arg |-> payload.text],
            WithJSONBody(r, payload))

\* a terminal method: it returns (req, err); a request it returns joins made
Materialize(method, built) ==
  /\ Len(hist) < MaxBuilderCalls
  /\ r' = built.r
  /\ req' = built.req
  /\ buildErr' = built.err
  /\ made' = IF built.req.nil THEN made ELSE Append(made, built.req)
  /\ hist' = Append(hist, [name |-> method, arg |-> ""])
  /\ UNCHANGED <<b, op, log>>
  /\ UNCHANGED <<pkgBaseURL, result, opErr, clients, procs>>
  /\ UNCHANGED doVars

BuilderGET == Materialize(MethodGet, GET(r))

BuilderPOST == Materialize(MethodPost, POST(r))

BuilderPUT == Materialize(MethodPut, PUT(r))

BuilderDELETE == Materialize(MethodDelete, DELETE(r))

BuilderNext ==
  \/ \E baseURL \in BaseURLs : BuilderWithBaseURL(baseURL)
  \/ \E endpoint \in Endpoints : BuilderWithEndpoint(endpoint)
  \/ \E key \in {"state"}, value \in {"1"} : BuilderWithParam(key, value)
  \/ \E key \in {"state"}, value \in {"2"} : BuilderAddParam(key, value)
  \/ \E key \in HeaderKeys, value \in HeaderValues : BuilderWithHeader(key, value)
  \/ \E username \in {"user"}, password \in {"secret"} :
       BuilderWithBasicAuth(username, password)
  \/ BuilderWithContentTypeJSON
  \/ \E body \in RawBodies : BuilderWithBody(body)
  \/ \E payload \in Payloads : BuilderWithJSONBody(payload)
  \/ BuilderGET
  \/ BuilderPOST
  \/ BuilderPUT
  \/ BuilderDELETE

SpecBuilder == InitBuilder /\ [][BuilderNext]_vars

\* ------------------------------------------------------------------------
\* The requests a terminal method has returned
\* ------------------------------------------------------------------------

\* req.Header is the builder's header map (builder.go line 179): the headers
\* of every request this builder has returned are read from r
HeaderOf(request) == r.header

\* the header keys that name the User-Agent in some letter case
UserAgentKeys(header) ==
  {k \in DOMAIN header : CanonicalMIMEHeaderKey(k) = "User-Agent"}

Terminals == {MethodGet, MethodPost, MethodPut, MethodDelete}

\* C11: at the step in which a terminal method returns a request, the
\* request carries the library's User-Agent as its only User-Agent value,
\* whatever calls were made on the builder before, WithHeader("User-Agent", x)
\* in any letter case included.
C11_UserAgentFixed ==
  [][Len(made') > Len(made) =>
       /\ UserAgentKeys(HeaderOf(made'[Len(made')])') = {"User-Agent"}
       /\ HeaderOf(made'[Len(made')])'["User-Agent"] = <<UserAgent>>
       /\ HeaderGet(HeaderOf(made'[Len(made')])', "user-agent") = UserAgent]_vars

\* a request returned by GET right after WithHeader set another User-Agent
\* under a lower-case key
C11_Witness ==
  /\ Len(hist) = 2
  /\ hist[1] = [name |-> "WithHeader", arg |-> "user-agent"]
  /\ hist[2].name = MethodGet
  /\ Len(made) = 1
  /\ HeaderGet(HeaderOf(made[1]), "User-Agent") = UserAgent

\* what a holder of a returned request reads from it
RequestView(request) ==
  [Method |-> request.Method,
   URL    |-> URLString(request),
   Header |-> HeaderOf(request),
   Body   |-> request.Body]

\* C12: a request a terminal method has returned keeps its method, URL, query
\* string, headers and body whatever is called on the builder afterwards.
C12_MaterializedRequestImmutable ==
  [][\A i \in 1..Len(made) : RequestView(made[i])' = RequestView(made[i])]_vars

\* the bytes the transport reads from a request body
BodyBytes(body) == IF body.nil THEN "" ELSE body.data

\* the latest call on the builder
Latest == hist[Len(hist)]

\* the latest call that set the body, or 0
RECURSIVE LastBodyCall(_, _)
LastBodyCall(calls_, i) ==
  IF i = 0 THEN 0
  ELSE IF calls_[i].name \in {"WithBody", "WithJSONBody"} THEN i
  ELSE LastBodyCall(calls_, i - 1)

\* the body in place comes from a WithJSONBody whose value did not serialize
FailedJSONBody(calls_) ==
  /\ LastBodyCall(calls_, Len(calls_)) # 0
  /\ calls_[LastBodyCall(calls_, Len(calls_))] =
       [name |-> "WithJSONBody", arg |-> ""]

\* C14: WithJSONBody(v) sets Content-Type to application/json; charset=utf-8
\* and changes nothing of the builder but that header and the body; the body
\* is the JSON encoding of v as json.Encoder writes it (the text and a line
\* feed) when v serializes and has no bytes when it does not; a terminal
\* method called on a builder holding such an empty body reports the error it
\* would report without a body, and the request it returns has an empty body.
C14_JSONBodyOrEmpty ==
  [][/\ (Len(hist') > Len(hist) /\ Latest'.name = "WithJSONBody") =>
          /\ r'.header = HeaderSet(r.header, "Content-Type",
                                   "application/json; charset=utf-8")
          /\ [r' EXCEPT !.header = r.header, !.body = r.body] = r
          /\ ~r'.body.nil
          /\ BodyBytes(r'.body) =
               (IF Latest'.arg = "" THEN "" ELSE Latest'.arg \o "\n")
          /\ UNCHANGED <<req, buildErr, made>>
     /\ (Len(hist') > Len(hist) /\ Latest'.name \in Terminals
           /\ FailedJSONBody(hist)) =>
          /\ buildErr' = build([WithBody(r, NoBody)
                                  EXCEPT !.method = Latest'.name]).err
          /\ buildErr' = NoError =>
               /\ Len(made') = Len(made) + 1
               /\ made'[Len(made')] = req'
               /\ BodyBytes(req'.Body) = ""
               /\ HeaderGet(HeaderOf(req')', "Content-Type") =
                    "application/json; charset=utf-8"]_vars

\* POST has returned a request after a WithJSONBody whose value did not
\* serialize replaced a body set by WithBody
C14_Witness ==
  /\ Len(hist) = 3
  /\ hist[1].name = "WithBody"
  /\ hist[2] = [name |-> "WithJSONBody", arg |-> ""]
  /\ hist[3].name = MethodPost
  /\ buildErr = NoError
  /\ Len(made) = 1
  /\ BodyBytes(made[1].Body) = ""

\* the argument of the latest call of a method, or the value New left
RECURSIVE LastArg(_, _, _, _)
LastArg(calls_, i, name, initial) ==
  IF i = 0 THEN initial
  ELSE IF calls_[i].name = name THEN calls_[i].arg
  ELSE LastArg(calls_, i - 1, name, initial)

\* C15: a request returned by a terminal method has the method of that
\* terminal, and its target is the value of the last WithBaseURL immediately
\* followed by the value of the last WithEndpoint, character for character
\* (followed by the encoded query parameters when there are any).
C15_TargetIsConcatenation ==
  [][Len(made') > Len(made) =>
       /\ req'.Method = Latest'.name
       /\ URLString(req') =
            LastArg(hist, Len(hist), "WithBaseURL", "")
              \o LastArg(hist, Len(hist), "WithEndpoint", "")
              \o (IF r.params = <<>> THEN "" ELSE "?" \o Encode(r.params))]_vars

\* ------------------------------------------------------------------------
\* Resource operations running concurrently, on one client or on several
\* ------------------------------------------------------------------------

\* what b.httpClient.Do returns: an error, or a response
TransportAnswer(cause) == [failed |-> TRUE, cause |-> cause]

ResponseAnswer(code, body) == [failed |-> FALSE, res |-> Response(code, body)]

Answers ==
  {TransportAnswer("context deadline exceeded"),
   ResponseAnswer(200, BodyGoldPlan),
   ResponseAnswer(404, BodyNotFound)}

\* Do from the return of b.httpClient.Do on: the error returned and the
\* value v points to afterwards
DoResult(answer, dst) ==
  LET before == IF dst.nil THEN PlanZero ELSE dst.val
  IN  IF answer.failed
      THEN [ret |-> TransportError(answer.cause), target |-> before]
      ELSE IF IsErrorStatus(answer.res.StatusCode)
      THEN LET d == Decode(answer.res.Body, ErrorResponseZero, ErrorResponseTags)
           IN  [ret |-> IF d.err = "" THEN APIError(d.val)
                        ELSE ErrorString("unknown error, status code: "
                                            \o Itoa(answer.res.StatusCode)),
                target |-> before]
      ELSE IF ~dst.nil
      THEN LET d == Decode(answer.res.Body, dst.val, PlanTags)
           IN  [ret |-> IF d.err = "" THEN NoError
                        ELSE WrapError("failed to decode response body: ", d.err),
                target |-> d.val]
      ELSE [ret |-> NoError, target |-> before]

\* a call of a resource operation with its arguments
OpCall(name, ctx, handle, payload) ==
  [name |-> name, ctx |-> ctx, handle |-> handle, payload |-> payload]

OpCalls ==
  {OpCall("GetPlan", Background, "gold-plan", Payload(FALSE, "")),
   OpCall("CreatePlan", Background, "",
          Payload(TRUE, "{\"name\":\"gold\",\"handle\":\"gold-plan\"}")),
   OpCall("DeletePlanMetadata", NilContext, "gold-plan", Payload(FALSE, ""))}

\* requestBuilder := b.newBillwerkRequest(ctx).WithEndpoint(endpoint)...
ConfigureCall(builder, call) ==
  CASE call.name = "GetPlan" ->
         WithEndpoint(builder, "/plan/" \o call.handle \o "/current")
    [] call.name = "CreatePlan" ->
         WithJSONBody(WithEndpoint(builder, "/plan"), call.payload)
    [] call.name = "DeletePlanMetadata" ->
         WithEndpoint(builder, "/plan/" \o call.handle \o "/metadata")

\* req, err := requestBuilder.GET() / POST() / DELETE()
TerminalOf(builder, call) ==
  CASE call.name = "GetPlan" -> GET(builder)
    [] call.name = "CreatePlan" -> POST(builder)
    [] call.name = "DeletePlanMetadata" -> DELETE(builder)

\* the second argument of Do: &res with var res Plan, or nil
DestinationOf(call) ==
  IF call.name = "DeletePlanMetadata" THEN NilValue ELSE Pointer(PlanZero)

NoCall == OpCall("", Background, "", Payload(FALSE, ""))

NoAnswer == [failed |-> FALSE, res |-> NoResponse]

\* a caller that is in no operation; its locals are those of its latest call
IdleProc ==
  [pc |-> "Idle", c |-> 0, call |-> NoCall, r |-> NoBuilder, req |-> NoRequest,
   err |-> NoError, answer |-> NoAnswer, ret |-> NoError, target |-> PlanZero]

InitConc ==
  /\ InitCall
  /\ InitOp
  /\ b = NewBillwerk("priv_abc123", <<>>)
  /\ pkgBaseURL = BaseURL
  /\ made = <<>>
  /\ hist = <<>>
  /\ result = NilValue
  /\ opErr = NoError
  /\ clients = <<NewBillwerk("a", <<>>), NewBillwerk("priv_abc123", <<CustomClient>>)>>
  /\ procs = [p \in 1..NumProcs |-> IdleProc]

\* caller p enters an operation of client c
ConcCall(p, c, call) ==
  /\ procs[p].pc = "Idle"
  /\ procs' = [procs EXCEPT ![p] = [IdleProc EXCEPT !.pc = "Called", !.c = c,
                                                      !.call = call]]
  /\ UNCHANGED <<pkgBaseURL, made, hist, result, opErr, clients>>
  /\ UNCHANGED <<doVars, opVars>>

\* the URL of the sandbox environment
SandboxURL == "https://sandbox.reepay.com/v1"

ConcConfigureSetsBaseURL(p) ==
  /\ procs[p].pc = "Called"
  /\ pkgBaseURL' = IF clients[procs[p].c].httpClient = CustomClient
                   THEN SandboxURL ELSE BaseURL
  /\ procs' = [procs EXCEPT
       ![p].r = ConfigureCall(
                  newBillwerkRequest(clients[procs[p].c], procs[p].call.ctx),
                  procs[p].call),
       ![p].pc = "Configured"]
  /\ UNCHANGED <<made, hist, result, opErr, clients>>
  /\ UNCHANGED <<doVars, opVars>>

\* caller p obtains its builder from its client and configures it
ConcConfigure(p) ==
  /\ procs[p].pc = "Called"
  /\ procs' = [procs EXCEPT
       ![p].r = ConfigureCall(
                  newBillwerkRequest(clients[procs[p].c], procs[p].call.ctx),
                  procs[p].call),
       ![p].pc = "Configured"]
  /\ UNCHANGED <<pkgBaseURL, made, hist, result, opErr, clients>>
  /\ UNCHANGED <<doVars, opVars>>

\* the terminal method of caller p returns; on an error the operation returns
ConcTerminal(p) ==
  /\ procs[p].pc = "Configured"
  /\ LET built == TerminalOf(procs[p].r, procs[p].call)
     IN  procs' = [procs EXCEPT
           ![p].r = built.r,
           ![p].req = built.req,
           ![p].err = built.err,
           ![p].ret = built.err,
           ![p].pc = IF built.err # NoError THEN "Returned" ELSE "Built"]
  /\ UNCHANGED <<pkgBaseURL, made, hist, result, opErr, clients>>
  /\ UNCHANGED <<doVars, opVars>>

\* Do runs for caller p, b.httpClient.Do returning answer, and the operation
\* returns
ConcDo(p, answer) ==
  /\ procs[p].pc = "Built"
  /\ LET done == DoResult(answer, DestinationOf(procs[p].call))
     IN  procs' = [procs EXCEPT
           ![p].answer = answer,
           ![p].ret = done.ret,
           ![p].target = done.target,
           ![p].pc = "Returned"]
  /\ UNCHANGED <<pkgBaseURL, made, hist, result, opErr, clients>>
  /\ UNCHANGED <<doVars, opVars>>

ConcNext ==
  \E p \in 1..NumProcs :
    \/ \E c \in 1..Len(clients), call \in OpCalls : ConcCall(p, c, call)
    \/ ConcConfigure(p)
    \/ ConcTerminal(p)
    \/ \E answer \in Answers : ConcDo(p, answer)

SpecConc == InitConc /\ [][ConcNext]_vars

\* the clients as their construction left them
ClientsAsConstructed ==
  <<[apiKey |-> "a", apiKeyB64 |-> "", httpClient |-> DefaultClient],
    [apiKey |-> "priv_abc123", apiKeyB64 |-> "", httpClient |-> CustomClient]>>

\* what the terminal method returns when the call runs alone on client c
BuiltAlone(c, call) ==
  TerminalOf(
    ConfigureCall(
      WithHeader(
        WithBasicAuth(WithBaseURL(New(call.ctx), BaseURL),
                      ClientsAsConstructed[c].apiKey, ""),
        "Accept", "application/json; charset=utf-8"),
      call),
    call)

\* what a terminal method hands to its caller: the request with its headers,
\* and the error
Held(built) ==
  [req |-> built.req, err |-> built.err, header |-> built.r.header]

\* caller p has the request and the outcome of its call run alone
AsAlone(p) ==
  LET own == procs[p]
  IN  /\ own.pc \in {"Built", "Returned"} =>
           Held([req |-> own.req, err |-> own.err, r |-> own.r])
             = Held(BuiltAlone(own.c, own.call))
      /\ (own.pc = "Returned" /\ own.err # NoError) =>
           /\ own.ret = own.err
           /\ own.target = PlanZero
      /\ (own.pc = "Returned" /\ own.err = NoError) =>
           [ret |-> own.ret, target |-> own.target]
             = DoResult(own.answer, DestinationOf(own.call))

\* C13: no step of a resource operation writes the client's API key or HTTP
\* client or the base URL, and under every interleaving of concurrent
\* operations, on one client or on several, each call has the request (URL,
\* query, headers, body) and the outcome that the same call has run alone.
C13_ConcurrentCallsAsAlone ==
  /\ [](clients = ClientsAsConstructed /\ pkgBaseURL = BaseURL)
  /\ [][clients' = clients /\ pkgBaseURL' = pkgBaseURL]_vars
  /\ [](\A p \in 1..NumProcs : AsAlone(p))

\* two callers of one client have returned from different operations, one
\* with the decoded plan and one with the API error
C13_Witness ==
  /\ procs[1].pc = "Returned"
  /\ procs[2].pc = "Returned"
  /\ procs[1].c = 2
  /\ procs[2].c = 2
  /\ procs[1].call.name = "CreatePlan"
  /\ procs[2].call.name = "GetPlan"
  /\ procs[1].ret = NoError
  /\ procs[1].target = [Name |-> "gold", Handle |-> "gold-plan"]
  /\ procs[2].ret.kind = "ErrorResponse"
  /\ URLString(procs[2].req) = BaseURL \o "/plan/gold-plan/current"
  /\ HeaderGet(procs[1].r.header, "Authorization")
       = HeaderGet(procs[2].r.header, "Authorization")

\* ------------------------------------------------------------------------
\* The resource operations of plan.go from the call to the return
\* ------------------------------------------------------------------------

InitCalls ==
  /\ InitCall
  /\ InitOp
  /\ InitExt
  /\ b = NewBillwerk("priv_abc123", <<>>)

\* the operations that return only an error
ErrorOnlyOps ==
  {"GetPlanMetadata", "CreateOrUpdatePlanMetadata", "DeletePlanMetadata"}

\* the metadata object of the caller, as it is before the call
CallerMetadata == [Name |-> "old", Handle |-> "old-plan"]

\* the second argument of Do: &res with var res of the result type, the
\* caller's metadata, or nil
DoArgument(name) ==
  IF name = "DeletePlanMetadata" THEN NilValue
  ELSE IF name \in ErrorOnlyOps THEN Pointer(CallerMetadata)
  ELSE Pointer(PlanZero)

\* req, err := requestBuilder.GET(); if err != nil { return nil, err }
ReturnBuildError ==
  /\ op.phase = "Built"
  /\ buildErr # NoError
  /\ op' = [op EXCEPT !.phase = "Returned"]
  /\ result' = NilValue
  /\ opErr' = buildErr
  /\ UNCHANGED <<b, r, req, buildErr, log>>
  /\ UNCHANGED <<pkgBaseURL, made, hist, clients, procs>>
  /\ UNCHANGED doVars

\* err = b.Do(req, &res) is entered
CallDo ==
  /\ op.phase = "Built"
  /\ buildErr = NoError
  /\ DoCall(DoArgument(op.name))

ReturnResultOnError ==
  /\ op.phase = "Built"
  /\ pc = "Done"
  /\ op' = [op EXCEPT !.phase = "Returned"]
  /\ opErr' = ret
  /\ result' = IF op.name \in ErrorOnlyOps THEN NilValue ELSE Pointer(target)
  /\ UNCHANGED <<b, r, req, buildErr, log>>
  /\ UNCHANGED <<pkgBaseURL, made, hist, clients, procs>>
  /\ UNCHANGED doVars

\* if err = b.Do(req, &res); err != nil { return nil, err }; return &res, nil
ReturnResult ==
  /\ op.phase = "Built"
  /\ pc = "Done"
  /\ op' = [op EXCEPT !.phase = "Returned"]
  /\ opErr' = ret
  /\ result' = IF ret # NoError \/ op.name \in ErrorOnlyOps
               THEN NilValue
               ELSE Pointer(target)
  /\ UNCHANGED <<b, r, req, buildErr, log>>
  /\ UNCHANGED <<pkgBaseURL, made, hist, clients, procs>>
  /\ UNCHANGED doVars

CallsNext ==
  \/ \E ctx \in Contexts : GetListOfPlans(ctx)
  \/ \E ctx \in Contexts, handle \in Handles : GetPlan(ctx, handle)
  \/ \E ctx \in Contexts, handle \in Handles : GetListOfPlanVersions(ctx, handle)
  \/ \E ctx \in Contexts, plan \in Plans : CreatePlan(ctx, plan)
  \/ \E ctx \in Contexts, handle \in Handles, plan \in Plans :
       SupersedePlan(ctx, handle, plan)
  \/ \E ctx \in Contexts, handle \in Handles, plan \in Plans :
       UpdatePlan(ctx, handle, plan)
  \/ \E ctx \in Contexts, handle \in Handles : DeletePlan(ctx, handle)
  \/ \E ctx \in Contexts, handle \in Handles : UndeletePlan(ctx, handle)
  \/ \E ctx \in Contexts, handle \in Handles, version \in Versions :
       GetPlanEntitlements(ctx, handle, version)
  \/ \E ctx \in Contexts, handle \in Handles : GetPlanMetadata(ctx, handle)
  \/ \E ctx \in Contexts, handle \in Handles, metadata \in Metadata :
       CreateOrUpdatePlanMetadata(ctx, handle, metadata)
  \/ \E ctx \in Contexts, handle \in Handles : DeletePlanMetadata(ctx, handle)
  \/ CallGET
  \/ CallPOST
  \/ CallPUT
  \/ CallDELETE
  \/ ReturnBuildError
  \/ CallDo
  \/ \E cause \in TransportErrors : TransportFail(cause)
  \/ \E code \in StatusCodes, body \in Bodies : TransportRespond(code, body)
  \/ ErrorStatus
  \/ SuccessStatus
  \/ CloseBody
  \/ ReturnResult

SpecCalls == InitCalls /\ [][CallsNext]_vars

OpPhases == <<"Ready", "Configured", "Built", "Returned">>

PhaseIndex(phase) == CHOOSE i \in 1..4 : OpPhases[i] = phase

\* C16: a resource operation obtains and configures its builder, calls one
\* terminal method and then Do, in this order; when the terminal method
\* returns an error, the request is never dispatched and the operation returns
\* that error; and whenever the operation returns an error (construction,
\* transport, API, unknown API or decode), the value it returns is nil, also
\* when the body was decoded in part.
C16_OperationOrderAndNilOnError ==
  /\ [][/\ op.phase' # op.phase => PhaseIndex(op.phase') = PhaseIndex(op.phase) + 1
        /\ dispatches' > dispatches =>
             /\ op.phase = "Built"
             /\ op.phase' = "Built"
             /\ buildErr = NoError
             /\ ~req.nil
             /\ dispatches = 0
        /\ op.phase = "Built" => UNCHANGED <<r, req, buildErr>>]_vars
  /\ []((op.phase \in {"Built", "Returned"} /\ buildErr # NoError) =>
          /\ req.nil
          /\ dispatches = 0
          /\ pc = "Idle")
  /\ [](op.phase = "Returned" =>
          /\ buildErr # NoError => opErr = buildErr
          /\ buildErr = NoError => (pc = "Done" /\ dispatches = 1 /\ opErr = ret)
          /\ opErr # NoError => result = NilValue
          /\ (opErr = NoError /\ op.name \notin ErrorOnlyOps) =>
               result = Pointer(target))

\* GetPlan has returned after the body of a 200 response failed to decode
\* with one field already stored: the error wraps the cause, the value is nil
C16_Witness ==
  /\ op = [name |-> "GetPlan", phase |-> "Returned"]
  /\ ~res.nil
  /\ res.StatusCode = 200
  /\ opErr.kind = "wrapError"
  /\ target = [Name |-> "", Handle |-> "gold-plan"]
  /\ result = NilValue
  /\ dispatches = 1

====
